---- MODULE Spec2Model ----
(***************************************************************************)
(* Model of src/server/src/index.ts: the two lifecycle hooks (afterCreate, *)
(* beforeDelete) that keep a user-profile document next to every           *)
(* users-permissions user.  Handlers are async functions: they suspend at  *)
(* every call of the document service and other handler invocations run    *)
(* in between.                                                             *)
(***************************************************************************)
EXTENDS Integers, Sequences, FiniteSets, TLC

\* ------------------------------------------------------------- bounds
\* Handler invocations that can be in progress at the same time.
MaxInv == 2
\* Profile documents the store hands a documentId to in one behaviour.
MaxDocs == 2
\* Math.random() returns k / RandDen for k in 0 .. RandDen - 1.
RandDen == 16

Slots == 1 .. MaxInv
\* Identifiers of users (the ids of the spec's scenarios).
UserIds == {7, 42}

\* ------------------------------------------------- JavaScript values
\* An optional value: <<>> is undefined (or an absent property), <<v>> is v.
Undefined == <<>>
Some(v) == <<v>>

\* obj?.field : undefined when obj is undefined, else the property.
Get(obj, field) == IF obj = Undefined THEN Undefined ELSE obj[1][field]

\* JavaScript truthiness of an optional string: undefined and "" are falsy.
Truthy(v) == v # Undefined /\ v[1] # ""

\* ------------------------------------------------ generateUsername
adjectives == <<"Swift", "Brave", "Clever", "Mighty", "Silent", "Witty", "Bold", "Eager">>
nouns == <<"Tiger", "Eagle", "Shark", "Wolf", "Falcon", "Panda", "Dragon", "Hawk">>
NumberBase == 1000
NumberSpan == 9000

\* Math.floor(base + (k / RandDen) * span), for integers base and span.
FloorScaled(base, span, k) == base + ((span * k) \div RandDen)

\* The three successive Math.random() results are rnd[1], rnd[2], rnd[3]
\* (numerators over RandDen), in the order the code draws them.
\* Math.floor(Math.random() * 9000), without the 1000 it is added to.
randomNumberFromZero(rnd) == FloorScaled(0, NumberSpan, rnd[1])

randomNumber(rnd) == FloorScaled(NumberBase, NumberSpan, rnd[1])
randomAdjectiveIndex(rnd) == FloorScaled(0, Len(adjectives), rnd[2])
randomNounIndex(rnd) == FloorScaled(0, Len(nouns), rnd[3])

\* Arrays are 0-based in the source and sequences 1-based here.
generateUsername(rnd) ==
    adjectives[randomAdjectiveIndex(rnd) + 1]
        \o nouns[randomNounIndex(rnd) + 1]
        \o ToString(randomNumber(rnd))

\* The draws the behaviours of Spec take from the random source.
RandSamples == {<<0, 0, 0>>, <<RandDen - 1, RandDen - 1, RandDen - 1>>}

FewRandSamples == {<<RandDen - 1, 0, RandDen - 1>>}

\* Every value the random source can return, at each of the three calls.
DiagonalDraws == {<<k, k, k>> : k \in 0 .. RandDen - 1}

\* ---------------------------------------------------------- events
FullNameInputs == {Undefined, Some(""), Some("Ada Lovelace")}
BioInputs == {Undefined, Some(""), Some("Mathematician")}

\* params of a creation event: absent, without data, or with data.
CreateParams ==
    {Undefined, Some([data |-> Undefined, where |-> Undefined])}
    \cup {Some([data |-> Some([fullName |-> f, bio |-> b]), where |-> Undefined]) :
            f \in FullNameInputs, b \in BioInputs}

\* The creation events of the interleaved behaviours: nothing supplied,
\* and both fields supplied.
FewCreateParams ==
    {Undefined,
     Some([data |-> Some([fullName |-> Some("Ada Lovelace"),
                          bio |-> Some("Mathematician")]), where |-> Undefined])}

\* params of a deletion event for user u: where.id is u, or some level of
\* the path params.where.id is absent.
DeleteParams(u) ==
    {Undefined,
     Some([data |-> Undefined, where |-> Undefined]),
     Some([data |-> Undefined, where |-> Some([id |-> Undefined])]),
     Some([data |-> Undefined, where |-> Some([id |-> Some(u)])])}

\* The creation events that supply no fullName (and no bio): params, data
\* or the property is absent.
NoNameParams ==
    {Undefined,
     Some([data |-> Undefined, where |-> Undefined]),
     Some([data |-> Some([fullName |-> Undefined, bio |-> Undefined]), where |-> Undefined])}

NoBio == "No bio yet"

\* ------------------------------------------------------------ state
VARIABLES
    users,          \* ids of the User records that exist (owned by the host)
    profiles,       \* the user-profile collection, in insertion order
    nextDocumentId, \* the next documentId the store assigns
    inv,            \* the handler invocations, by slot
    lastCreated     \* the user whose first Profile the invocation that completed
                    \* most recently has created (0: it created none)

vars == <<users, profiles, nextDocumentId, inv, lastCreated>>

NoInvocation ==
    [kind |-> "none", pc |-> "idle", subject |-> 0, data |-> Undefined,
     userId |-> Undefined, fullName |-> "", bio |-> "", userProfile |-> <<>>,
     atStart |-> 0, nFind |-> 0, nCreate |-> 0, nDelete |-> 0,
     second |-> FALSE, failed |-> "", draws |-> <<>>]

\* ------------------------------------------------- document service
\* The documents docs[k] with keep[k], in order.
RECURSIVE SelectDocs(_, _)
SelectDocs(docs, keep) ==
    IF docs = <<>> THEN <<>>
    ELSE IF keep[1] THEN <<Head(docs)>> \o SelectDocs(Tail(docs), Tail(keep))
    ELSE SelectDocs(Tail(docs), Tail(keep))

\* The answer to a query whose $eq operand is undefined: no document.
findManyUndefined(docs) == <<>>

\* findMany({filters: {user: {id: {$eq: userId}}}}): the documents whose
\* back-reference equals userId, in the collection's order.
findMany(docs, userId) ==
    IF userId = Undefined THEN findManyUndefined(docs)
    ELSE SelectDocs(docs, [k \in 1 .. Len(docs) |-> docs[k].user = userId[1]])

\* create({data}): the collection with one more document, under a fresh id.
create(docs, documentId, data) ==
    Append(docs, [documentId |-> documentId, user |-> data.user,
                  fullName |-> data.fullName, bio |-> data.bio])

\* delete({documentId}): the collection without the document of that id.
delete(docs, documentId) ==
    SelectDocs(docs, [k \in 1 .. Len(docs) |-> docs[k].documentId # documentId])

\* ---------------------------------------------------------- helpers
\* How many profiles reference user u.
CountFor(docs, u) == Len(findMany(docs, Some(u)))

InProgress(i) == inv[i].pc \notin {"idle", "done", "rejected"}

\* No invocation is under way: the host has awaited every hook it called.
Quiet == \A i \in Slots : inv[i].pc = "idle"

\* The slot a new invocation takes: the lowest free one.
FreeSlot(i) ==
    /\ inv[i].pc = "idle"
    /\ \A j \in Slots : j < i => inv[j].pc # "idle"

\* documentIds the store may still have to assign to invocations under way.
Reserved == Cardinality({i \in Slots : inv[i].kind = "afterCreate" /\ InProgress(i)})

\* What lastCreated becomes when invocation i completes.
Created(i) ==
    IF inv[i].kind = "afterCreate" /\ inv[i].atStart = 0 THEN inv[i].subject ELSE 0

\* ------------------------------------------------------ Init and host
Init ==
    /\ users = {}
    /\ profiles = <<>>
    /\ nextDocumentId = 1
    /\ inv = [i \in Slots |-> NoInvocation]
    /\ lastCreated = 0

\* The host creates a User record.
CreateUser(u) ==
    /\ u \notin users
    /\ users' = users \cup {u}
    /\ UNCHANGED <<profiles, nextDocumentId, inv, lastCreated>>

\* The host has awaited the hook: the invocation is over.  After a
\* beforeDelete that completed, the host deletes the User record.
Return(i) ==
    /\ inv[i].pc \in {"done", "rejected"}
    /\ inv' = [inv EXCEPT ![i] = NoInvocation]
    /\ users' = IF inv[i].kind = "beforeDelete" /\ inv[i].pc = "done"
                THEN users \ {inv[i].subject} ELSE users
    /\ UNCHANGED <<profiles, nextDocumentId, lastCreated>>

\* ------------------------------------------------------- afterCreate
\* The default taken with ?? instead of ||: an empty string is kept.
afterCreateFullNameNullish(params, rnd) ==
    IF Get(Get(params, "data"), "fullName") # Undefined
    THEN Get(Get(params, "data"), "fullName")[1]
    ELSE generateUsername(rnd)

\* The results of Math.random() the hook consumes: generateUsername is
\* called only when the supplied fullName is falsy.
afterCreateDraws(params, rnd) ==
    IF Truthy(Get(Get(params, "data"), "fullName")) THEN <<>> ELSE rnd

\* const fullName = params?.data?.fullName || generateUsername();
afterCreateFullName(params, rnd) ==
    IF Truthy(Get(Get(params, "data"), "fullName"))
    THEN Get(Get(params, "data"), "fullName")[1]
    ELSE generateUsername(rnd)

\* const bio = params?.data?.bio || "No bio yet";
afterCreateBio(params) ==
    IF Truthy(Get(Get(params, "data"), "bio"))
    THEN Get(Get(params, "data"), "bio")[1]
    ELSE NoBio

\* The hook runs up to its first await: createUserProfile(result.id, ...)
\* calls checkIfUserProfileExists, which issues findMany.
afterCreateStarted(u, params, rnd) ==
    [NoInvocation EXCEPT
        !.kind = "afterCreate", !.pc = "findMany",
        !.subject = u, !.data = Get(params, "data"),
        !.userId = Some(u),
        !.fullName = afterCreateFullName(params, rnd),
        !.bio = afterCreateBio(params),
        !.draws = afterCreateDraws(params, rnd),
        !.atStart = CountFor(profiles, u),
        !.second = (lastCreated = u)]

afterCreate(i, u, params, rnd) ==
    /\ FreeSlot(i)
    /\ u \in users
    /\ nextDocumentId + Reserved <= MaxDocs
    /\ inv' = [inv EXCEPT ![i] = afterCreateStarted(u, params, rnd)]
    /\ UNCHANGED <<users, profiles, nextDocumentId, lastCreated>>

\* The host creates a User record and fires afterCreate for it.
UserCreated(i, u, params, rnd) ==
    /\ FreeSlot(i)
    /\ u \notin users
    /\ nextDocumentId + Reserved <= MaxDocs
    /\ users' = users \cup {u}
    /\ inv' = [inv EXCEPT ![i] = afterCreateStarted(u, params, rnd)]
    /\ UNCHANGED <<profiles, nextDocumentId, lastCreated>>

\* ------------------------------------------------------ beforeDelete
\* const idToDelete = params?.where?.id;
idToDelete(params) == Get(Get(params, "where"), "id")

\* The hook runs up to its first await: deleteUserProfile(idToDelete)
\* calls checkIfUserProfileExists, which issues findMany.
beforeDelete(i, u, params) ==
    /\ FreeSlot(i)
    /\ u \in users
    /\ inv' = [inv EXCEPT ![i] =
                  [NoInvocation EXCEPT
                     !.kind = "beforeDelete", !.pc = "findMany",
                     !.subject = u,
                     !.userId = idToDelete(params),
                     !.atStart = CountFor(profiles, u)]]
    /\ UNCHANGED <<users, profiles, nextDocumentId, lastCreated>>

\* ------------------------------------------ checkIfUserProfileExists
\* The helper with its filter lost: every Profile matches.
checkIfUserProfileExistsUnfiltered(userId) == profiles

\* What the helper returns when the store answers its query now.
checkIfUserProfileExists(userId) == findMany(profiles, userId)

\* ------------------------------------------------- createUserProfile
\* The guard with its bound off by one: a single Profile does not count.
createUserProfileExistsOffByOne(userProfile) == Len(userProfile) > 1

\* if (userProfile.length > 0) return;
createUserProfileExists(userProfile) == Len(userProfile) > 0

\* data: { user: userId, fullName: fullName, bio: bio }
createUserProfileData(userId, fullName, bio) ==
    [user |-> userId[1], fullName |-> fullName, bio |-> bio]

\* createUserProfile looking up a second time when the first lookup found
\* nothing, before it inserts.
createUserProfileRechecks(i) ==
    /\ inv[i].kind = "afterCreate"
    /\ inv[i].pc = "findMany"
    /\ LET userProfile == checkIfUserProfileExists(inv[i].userId) IN
       IF createUserProfileExists(userProfile)
       THEN /\ inv' = [inv EXCEPT ![i].pc = "done",
                                  ![i].userProfile = userProfile,
                                  ![i].nFind = inv[i].nFind + 1]
            /\ lastCreated' = Created(i)
       ELSE /\ inv' = [inv EXCEPT ![i].pc = IF inv[i].nFind = 0 THEN "findMany" ELSE "create",
                                  ![i].userProfile = userProfile,
                                  ![i].nFind = inv[i].nFind + 1]
            /\ UNCHANGED lastCreated
    /\ UNCHANGED <<users, profiles, nextDocumentId>>

\* The store answers the lookup and createUserProfile resumes: it
\* returns, or issues create.
createUserProfile(i) ==
    /\ inv[i].kind = "afterCreate"
    /\ inv[i].pc = "findMany"
    /\ LET userProfile == checkIfUserProfileExists(inv[i].userId) IN
       IF createUserProfileExists(userProfile)
       THEN /\ inv' = [inv EXCEPT ![i].pc = "done",
                                  ![i].userProfile = userProfile,
                                  ![i].nFind = inv[i].nFind + 1]
            /\ lastCreated' = Created(i)
       ELSE /\ inv' = [inv EXCEPT ![i].pc = "create",
                                  ![i].userProfile = userProfile,
                                  ![i].nFind = inv[i].nFind + 1]
            /\ UNCHANGED lastCreated
    /\ UNCHANGED <<users, profiles, nextDocumentId>>

\* The store inserts the document.
StoreCreate(i) ==
    /\ inv[i].pc = "create"
    /\ profiles' = create(profiles, nextDocumentId,
                           createUserProfileData(inv[i].userId, inv[i].fullName, inv[i].bio))
    /\ nextDocumentId' = nextDocumentId + 1
    /\ inv' = [inv EXCEPT ![i].pc = "created",
                          ![i].nCreate = inv[i].nCreate + 1]
    /\ UNCHANGED <<users, lastCreated>>

\* await create(...) returns and so do createUserProfile and the hook.
afterCreateReturns(i) ==
    /\ inv[i].pc = "created"
    /\ inv' = [inv EXCEPT ![i].pc = "done"]
    /\ lastCreated' = Created(i)
    /\ UNCHANGED <<users, profiles, nextDocumentId>>

\* ------------------------------------------------- deleteUserProfile
\* if (userProfile.length > 0)
deleteUserProfileExists(userProfile) == Len(userProfile) > 0

\* documentId: userProfile[0].documentId
deleteUserProfileDocumentId(userProfile) == userProfile[1].documentId

\* deleteUserProfile without its length guard: reading documentId of
\* userProfile[0] when nothing was found throws, and the hook rejects.
deleteUserProfileUnguarded(i) ==
    /\ inv[i].kind = "beforeDelete"
    /\ inv[i].pc = "findMany"
    /\ LET userProfile == checkIfUserProfileExists(inv[i].userId) IN
       inv' = [inv EXCEPT ![i].pc = IF Len(userProfile) > 0 THEN "delete" ELSE "rejected",
                          ![i].userProfile = userProfile,
                          ![i].nFind = inv[i].nFind + 1]
    /\ lastCreated' = IF Len(checkIfUserProfileExists(inv[i].userId)) > 0
                      THEN lastCreated ELSE 0
    /\ UNCHANGED <<users, profiles, nextDocumentId>>

\* The store answers the lookup and deleteUserProfile resumes: it
\* issues delete, or returns.
deleteUserProfile(i) ==
    /\ inv[i].kind = "beforeDelete"
    /\ inv[i].pc = "findMany"
    /\ LET userProfile == checkIfUserProfileExists(inv[i].userId) IN
       IF deleteUserProfileExists(userProfile)
       THEN /\ inv' = [inv EXCEPT ![i].pc = "delete",
                                  ![i].userProfile = userProfile,
                                  ![i].nFind = inv[i].nFind + 1]
            /\ UNCHANGED lastCreated
       ELSE /\ inv' = [inv EXCEPT ![i].pc = "done",
                                  ![i].userProfile = userProfile,
                                  ![i].nFind = inv[i].nFind + 1]
            /\ lastCreated' = Created(i)
    /\ UNCHANGED <<users, profiles, nextDocumentId>>

\* The store removes the document.
StoreDelete(i) ==
    /\ inv[i].pc = "delete"
    /\ profiles' = delete(profiles, deleteUserProfileDocumentId(inv[i].userProfile))
    /\ inv' = [inv EXCEPT ![i].pc = "deleted",
                          ![i].nDelete = inv[i].nDelete + 1]
    /\ UNCHANGED <<users, nextDocumentId, lastCreated>>

\* deleteUserProfile deleting every Profile it found, one after the other.
beforeDeleteReturnsToNext(i) ==
    /\ inv[i].pc = "deleted"
    /\ IF Len(inv[i].userProfile) > 1
       THEN /\ inv' = [inv EXCEPT ![i].pc = "delete",
                                  ![i].userProfile = Tail(inv[i].userProfile)]
            /\ UNCHANGED lastCreated
       ELSE /\ inv' = [inv EXCEPT ![i].pc = "done"]
            /\ lastCreated' = Created(i)
    /\ UNCHANGED <<users, profiles, nextDocumentId>>

\* await delete(...) returns and so do deleteUserProfile and the hook.
beforeDeleteReturns(i) ==
    /\ inv[i].pc = "deleted"
    /\ inv' = [inv EXCEPT ![i].pc = "done"]
    /\ lastCreated' = Created(i)
    /\ UNCHANGED <<users, profiles, nextDocumentId>>

\* ----------------------------------------------------------- failure
\* The failure caught and the call issued again: the invocation stays at
\* the call that failed.
StoreFailsRetried(i) ==
    /\ inv[i].pc \in {"findMany", "create", "delete"}
    /\ inv[i].failed = ""
    /\ inv' = [inv EXCEPT ![i].failed = inv[i].pc]
    /\ lastCreated' = 0
    /\ UNCHANGED <<users, profiles, nextDocumentId>>

\* A call of the document service fails: nothing catches the rejection,
\* so the hook's promise rejects.  The failed call changed nothing.
StoreFails(i) ==
    /\ inv[i].pc \in {"findMany", "create", "delete"}
    /\ inv' = [inv EXCEPT ![i].pc = "rejected", ![i].failed = inv[i].pc]
    /\ lastCreated' = 0
    /\ UNCHANGED <<users, profiles, nextDocumentId>>

\* ------------------------------------------------------ specifications
\* The lifecycle bus fires an event, with params and random draws from the
\* given sets.
Fire(i, createParams, rndSet) ==
    \/ \E u \in UserIds, params \in createParams, rnd \in rndSet :
          afterCreate(i, u, params, rnd)
    \/ \E u \in UserIds : \E params \in DeleteParams(u) :
          beforeDelete(i, u, params)

Step(i) ==
    \/ createUserProfile(i)
    \/ StoreCreate(i)
    \/ afterCreateReturns(i)
    \/ deleteUserProfile(i)
    \/ StoreDelete(i)
    \/ beforeDeleteReturns(i)
    \/ StoreFails(i)

\* Handlers interleave at their awaits.
Next ==
    \/ \E u \in UserIds : CreateUser(u)
    \/ \E i \in Slots : Fire(i, FewCreateParams, FewRandSamples)
    \/ \E i \in Slots : Step(i)
    \/ \E i \in Slots : Return(i)

Spec == Init /\ [][Next]_vars

\* Every invocation runs to completion before the next one starts.
NextSeq ==
    \/ \E u \in UserIds : CreateUser(u)
    \/ \E i \in Slots : Quiet /\ Fire(i, CreateParams, RandSamples)
    \/ \E i \in Slots : Step(i)
    \/ \E i \in Slots : Return(i)

SpecSeq == Init /\ [][NextSeq]_vars

\* The steps of an invocation none of whose store calls fails.
StepResolved(i) ==
    \/ createUserProfile(i)
    \/ StoreCreate(i)
    \/ afterCreateReturns(i)
    \/ deleteUserProfile(i)
    \/ StoreDelete(i)
    \/ beforeDeleteReturns(i)

\* The life of the User records: afterCreate fires once for each user the
\* host creates, beforeDelete fires with the user's id for each user it
\* deletes, no store call fails, and handlers interleave.
NextLife ==
    \/ \E i \in Slots, u \in UserIds, params \in FewCreateParams, rnd \in FewRandSamples :
          UserCreated(i, u, params, rnd)
    \/ \E i \in Slots, u \in UserIds :
          beforeDelete(i, u, Some([data |-> Undefined, where |-> Some([id |-> Some(u)])]))
    \/ \E i \in Slots : StepResolved(i)
    \/ \E i \in Slots : Return(i)

SpecLife == Init /\ [][NextLife]_vars

\* Handlers interleave, and every store call eventually returns (resolved
\* or rejected) to the handler that awaits it.
SpecLive == Init /\ [][Next]_vars /\ \A i \in Slots : WF_vars(Step(i))

\* Run-to-completion, with creation events that supply no fullName and
\* every value of the random source.
NextNames ==
    \/ \E u \in UserIds : CreateUser(u)
    \/ \E i \in Slots : Quiet /\ Fire(i, NoNameParams, DiagonalDraws)
    \/ \E i \in Slots : Step(i)
    \/ \E i \in Slots : Return(i)

SpecNames == Init /\ [][NextNames]_vars

\* ------------------------------------------------------------ claims
CreateCompleted(i) == inv[i].kind = "afterCreate" /\ inv[i].pc = "done"
DeleteCompleted(i) == inv[i].kind = "beforeDelete" /\ inv[i].pc = "done"

\* C1: in every reachable state, for every User identifier, at most one
\* Profile has that identifier as its back-reference.
AtMostOneProfilePerUser ==
    \A u \in UserIds : CountFor(profiles, u) <= 1

\* C2: an afterCreate that runs right after a completed afterCreate for the
\* same user, which started with no Profile for that user, ends with exactly
\* one Profile for the user and has inserted and deleted nothing.
SecondCreateIsNoOp ==
    \A i \in Slots :
        CreateCompleted(i) /\ inv[i].second =>
            /\ CountFor(profiles, inv[i].subject) = 1
            /\ inv[i].nCreate = 0
            /\ inv[i].nDelete = 0
            /\ Len(inv[i].userProfile) = 1

\* A second afterCreate in sequence has completed, and the one Profile is
\* the first invocation's.
SecondCreateDone ==
    \E i \in Slots :
        /\ CreateCompleted(i) /\ inv[i].second
        /\ inv[i].atStart = 1
        /\ CountFor(profiles, inv[i].subject) = 1

\* Invocation i completes in this step.
Completes(i) == inv[i].pc # "done" /\ inv'[i].pc = "done"

\* C3: when an afterCreate for user u completes, exactly one Profile
\* references u if none did when the invocation started, and the invocation
\* has inserted nothing if one did.
CreateLeavesExactlyOne ==
    [][\A i \in Slots :
          Completes(i) /\ inv[i].kind = "afterCreate" =>
              /\ inv[i].atStart = 0 => CountFor(profiles', inv[i].subject) = 1
              /\ inv[i].atStart > 0 => inv'[i].nCreate = 0]_vars

\* C4: when a beforeDelete that carries the id of user u completes, and at
\* most one Profile referenced u when it started, no Profile references u.
DeleteLeavesNone ==
    [][\A i \in Slots :
          /\ Completes(i) /\ inv[i].kind = "beforeDelete"
          /\ inv[i].userId = Some(inv[i].subject)
          /\ inv[i].atStart <= 1
          => CountFor(profiles', inv[i].subject) = 0]_vars

\* C5: when a beforeDelete that carries the id of user u completes, and one
\* or more Profiles referenced u when it started, no Profile references u.
DeleteLeavesNoneOfMany ==
    [][\A i \in Slots :
          /\ Completes(i) /\ inv[i].kind = "beforeDelete"
          /\ inv[i].userId = Some(inv[i].subject)
          /\ inv[i].atStart >= 1
          => CountFor(profiles', inv[i].subject) = 0]_vars

\* C6: a beforeDelete whose lookup has found no Profile completes, without
\* a rejection, in the step the lookup is answered; it has executed no
\* insert and no delete, and no step of it changes the collection.
DeleteOfNothingIsNoOp ==
    [][\A i \in Slots :
          /\ inv'[i] # inv[i]
          /\ inv'[i].kind = "beforeDelete"
          /\ inv'[i].nFind >= 1
          /\ Len(inv'[i].userProfile) = 0
          => /\ profiles' = profiles
             /\ inv'[i].pc = "done"
             /\ inv'[i].nCreate = 0
             /\ inv'[i].nDelete = 0]_vars

\* A beforeDelete that carries the id of its user has found nothing and is
\* done, with the other users' Profiles in the store.
DeleteOfNothingDone ==
    \E i \in Slots :
        /\ DeleteCompleted(i)
        /\ inv[i].userId = Some(inv[i].subject)
        /\ inv[i].nFind = 1
        /\ inv[i].userProfile = <<>>
        /\ Len(profiles) > 0

\* Every name generateUsername can return.
SynthesizedNames ==
    {generateUsername(<<a, b, c>>) : a, b, c \in 0 .. RandDen - 1}

\* C7: the Profile an afterCreate inserts has the event's result.id as its
\* user; its fullName is the supplied one when that is present and not
\* empty, else a synthesized name; its bio is the supplied one when that is
\* present and not empty, else "No bio yet".
InsertedProfileCarriesEvent ==
    [][\A i \in Slots :
          inv'[i].nCreate = inv[i].nCreate + 1 =>
              /\ Len(profiles') = Len(profiles) + 1
              /\ LET p == profiles'[Len(profiles')]
                     fullName == Get(inv[i].data, "fullName")
                     bio == Get(inv[i].data, "bio")
                 IN /\ p.user = inv[i].subject
                    /\ IF fullName # Undefined /\ fullName # Some("")
                       THEN p.fullName = fullName[1]
                       ELSE p.fullName \in SynthesizedNames
                    /\ IF bio # Undefined /\ bio # Some("")
                       THEN p.bio = bio[1]
                       ELSE p.bio = "No bio yet"]_vars

\* An event that supplied an empty fullName and a bio has inserted a Profile
\* with a synthesized name and that bio.
InsertedWithOneDefault ==
    \E i \in Slots :
        /\ inv[i].pc = "created"
        /\ inv[i].data = Some([fullName |-> Some(""), bio |-> Some("Mathematician")])
        /\ \E k \in 1 .. Len(profiles) :
              /\ profiles[k].user = inv[i].subject
              /\ profiles[k].fullName \in SynthesizedNames
              /\ profiles[k].bio = "Mathematician"

\* C8: an afterCreate executes at most one insert and no delete, a
\* beforeDelete at most one delete and no insert; and the collection changes
\* only by such an insert or delete.
AtMostOneMutation ==
    /\ [](\A i \in Slots :
            /\ inv[i].kind = "afterCreate" => inv[i].nCreate <= 1 /\ inv[i].nDelete = 0
            /\ inv[i].kind = "beforeDelete" => inv[i].nDelete <= 1 /\ inv[i].nCreate = 0
            /\ inv[i].kind = "none" => inv[i].nCreate = 0 /\ inv[i].nDelete = 0)
    /\ [][profiles' # profiles =>
            \E i \in Slots :
                \/ /\ inv[i].kind = "afterCreate"
                   /\ inv'[i].nCreate = inv[i].nCreate + 1
                   /\ Len(profiles') = Len(profiles) + 1
                \/ /\ inv[i].kind = "beforeDelete"
                   /\ inv'[i].nDelete = inv[i].nDelete + 1
                   /\ Len(profiles') = Len(profiles) - 1]_vars

\* An afterCreate that inserted and a beforeDelete that deleted are both done.
OneInsertOneDelete ==
    \E i, j \in Slots :
        /\ CreateCompleted(i) /\ inv[i].nCreate = 1
        /\ DeleteCompleted(j) /\ inv[j].nDelete = 1

\* C9: a step of a handler invoked for user u leaves the User records
\* unchanged and leaves the Profiles of every other user unchanged; the
\* step in which the lookup is answered leaves the whole store unchanged.
HandlersKeepToTheirUser ==
    [][\A i \in Slots :
          inv'[i] # inv[i] /\ inv'[i].kind # "none" =>
              /\ users' = users
              /\ inv'[i].nFind # inv[i].nFind =>
                    profiles' = profiles /\ nextDocumentId' = nextDocumentId
              /\ \A v \in UserIds \ {inv'[i].subject} :
                    findMany(profiles', Some(v)) = findMany(profiles, Some(v))]_vars

\* A beforeDelete has deleted its user's Profile while another user's
\* Profile is in the store.
DeletedBesideAnother ==
    \E i \in Slots :
        /\ DeleteCompleted(i) /\ inv[i].nDelete = 1
        /\ inv[i].subject \in users
        /\ CountFor(profiles, inv[i].subject) = 0
        /\ \E v \in UserIds \ {inv[i].subject} : CountFor(profiles, v) = 1

StoreFailureRejects ==
    /\ [](\A i \in Slots :
            inv[i].failed # "" =>
                /\ inv[i].pc = "rejected"
                /\ inv[i].failed = "findMany" =>
                      inv[i].nFind = 0 /\ inv[i].nCreate = 0 /\ inv[i].nDelete = 0
                /\ inv[i].failed = "create" =>
                      inv[i].kind = "afterCreate" /\ inv[i].nCreate = 0
                /\ inv[i].failed = "delete" =>
                      inv[i].kind = "beforeDelete" /\ inv[i].nDelete = 0)
    /\ [][\A i \in Slots :
            /\ inv[i].failed = "" /\ inv'[i].failed # "" =>
                  /\ inv[i].pc = inv'[i].failed
                  /\ profiles' = profiles
                  /\ nextDocumentId' = nextDocumentId
            /\ inv[i].pc = "rejected" =>
                  /\ inv'[i] \in {inv[i], NoInvocation}
                  /\ inv'[i] # inv[i] => profiles' = profiles]_vars

\* A beforeDelete whose delete failed and an afterCreate whose lookup failed
\* are both rejected, and the Profile that was to be deleted is in the store.
FailedLookupAndFailedDelete ==
    \E i, j \in Slots :
        /\ inv[i].pc = "rejected" /\ inv[i].failed = "delete"
        /\ \E k \in 1 .. Len(profiles) :
              profiles[k].documentId = inv[i].userProfile[1].documentId
        /\ inv[j].pc = "rejected" /\ inv[j].failed = "findMany"
        /\ inv[j].kind = "afterCreate"

\* The profiles an afterCreate invocation i has inserted, when invocations
\* do not overlap: the last document the store gave an id to.
InsertedBy(i) ==
    {k \in 1 .. Len(profiles) :
        /\ inv[i].kind = "afterCreate" /\ inv[i].nCreate = 1
        /\ profiles[k].documentId = nextDocumentId - 1}

\* C12: for every creation event that supplies no fullName, whatever the
\* random source returns: the adjective index and the noun index are within
\* their 8-word lists, the number is in 1000..9999 and has four digits, and
\* the name of the invocation is an adjective of the list, a noun of the
\* list and that number, concatenated.
SynthesizedNameIsWellFormed ==
    \A i \in Slots :
        inv[i].kind = "afterCreate" /\ Get(inv[i].data, "fullName") = Undefined =>
            /\ inv[i].draws \in DiagonalDraws
            /\ Len(adjectives) = 8 /\ Len(nouns) = 8
            /\ randomAdjectiveIndex(inv[i].draws) \in 0 .. Len(adjectives) - 1
            /\ randomNounIndex(inv[i].draws) \in 0 .. Len(nouns) - 1
            /\ randomNumber(inv[i].draws) \in 1000 .. 9999
            /\ Len(ToString(randomNumber(inv[i].draws))) = 4
            /\ \E a \in 1 .. Len(adjectives), n \in 1 .. Len(nouns) :
                  inv[i].fullName =
                      adjectives[a] \o nouns[n] \o ToString(randomNumber(inv[i].draws))
            /\ \A k \in InsertedBy(i) : profiles[k].fullName = inv[i].fullName

\* An event without params, for which the random source returned its
\* greatest value three times, has inserted a Profile named after the last
\* adjective and the last noun.
SynthesizedFromGreatestDraw ==
    \E i \in Slots :
        /\ inv[i].kind = "afterCreate" /\ inv[i].pc = "created"
        /\ inv[i].data = Undefined
        /\ inv[i].draws = <<RandDen - 1, RandDen - 1, RandDen - 1>>
        /\ randomAdjectiveIndex(inv[i].draws) = Len(adjectives) - 1
        /\ \E k \in InsertedBy(i) :
              profiles[k].fullName =
                  adjectives[Len(adjectives)] \o nouns[Len(nouns)]
                      \o ToString(randomNumber(inv[i].draws))

\* The positions a handler can move to from each position.
LinearOrder ==
    [idle |-> {"findMany"},
     findMany |-> {"create", "delete", "done", "rejected"},
     create |-> {"created", "rejected"},
     created |-> {"done"},
     delete |-> {"deleted", "rejected"},
     deleted |-> {"done"},
     done |-> {"idle"},
     rejected |-> {"idle"}]

\* C13: an invocation is one linear sequence.  It starts by issuing its
\* lookup and executes at most one; a mutation is issued only once the
\* lookup has returned, an insert only by afterCreate and a delete only by
\* beforeDelete, and at most one is executed; the invocation only moves
\* forward along lookup, mutation, end; it is rejected only when a store
\* call failed; and when every store call returns, an invocation under way
\* eventually ends.
InvocationIsLinear ==
    /\ [](\A i \in Slots :
            /\ inv[i].nFind <= 1
            /\ inv[i].nCreate + inv[i].nDelete <= 1
            /\ inv[i].pc = "findMany" =>
                  inv[i].nFind = 0 /\ inv[i].nCreate = 0 /\ inv[i].nDelete = 0
            /\ inv[i].pc \in {"create", "created"} =>
                  inv[i].kind = "afterCreate" /\ inv[i].nFind = 1
            /\ inv[i].pc \in {"delete", "deleted"} =>
                  inv[i].kind = "beforeDelete" /\ inv[i].nFind = 1
            /\ inv[i].nCreate = 1 => inv[i].kind = "afterCreate"
            /\ inv[i].nDelete = 1 => inv[i].kind = "beforeDelete"
            /\ inv[i].pc = "rejected" => inv[i].failed # "")
    /\ [][\A i \in Slots :
            /\ inv'[i].pc # inv[i].pc => inv'[i].pc \in LinearOrder[inv[i].pc]
            /\ inv'[i].pc = inv[i].pc => inv'[i] = inv[i]
            /\ inv'[i].nCreate + inv'[i].nDelete > inv[i].nCreate + inv[i].nDelete =>
                  inv[i].nFind = 1 /\ inv[i].pc \in {"create", "delete"}]_vars
    /\ \A i \in Slots : InProgress(i) ~> inv[i].pc \in {"done", "rejected"}

\* For the same user, an afterCreate that looked up once and inserted once
\* and a beforeDelete that looked up once and deleted once have both ended.
LinearRunsEnded ==
    \E i, j \in Slots :
        /\ CreateCompleted(i) /\ inv[i].nFind = 1 /\ inv[i].nCreate = 1
        /\ DeleteCompleted(j) /\ inv[j].nFind = 1 /\ inv[j].nDelete = 1
        /\ inv[i].subject = inv[j].subject
        /\ inv[i].failed = "" /\ inv[j].failed = ""

\* C14: in every quiescent state (no invocation under way, every hook fired
\* and completed), a Profile references user u if and only if the User
\* record u exists.
ProfileLifetimeTracksUser ==
    Quiet => \A u \in UserIds : (CountFor(profiles, u) >= 1) <=> (u \in users)

\* C15: when every invocation runs to completion before the next one
\* starts, no two Profiles in the store reference the same user, in every
\* reachable state and whatever the sequence of creation and deletion
\* events.
AtMostOneWithoutOverlap ==
    \A k1, k2 \in 1 .. Len(profiles) :
        profiles[k1].user = profiles[k2].user => k1 = k2

\* After a creation event and a deletion event for a user, a second
\* creation event for that user has completed: it found no Profile and
\* inserted the only one in the store.
RecreatedAfterDelete ==
    \E i \in Slots :
        /\ CreateCompleted(i)
        /\ inv[i].atStart = 0 /\ inv[i].nFind = 1 /\ inv[i].nCreate = 1
        /\ Len(profiles) = 1
        /\ profiles[1].user = inv[i].subject
        /\ profiles[1].documentId = 2

\* C16: whenever a beforeDelete executes its delete, the document whose
\* documentId its lookup has read is still in the store.
DeleteTargetIsPresent ==
    [][\A i \in Slots :
          inv[i].pc = "delete" /\ inv'[i].pc = "deleted" =>
              \E k \in 1 .. Len(profiles) :
                  profiles[k].documentId = deleteUserProfileDocumentId(inv[i].userProfile)]_vars

====
